---- MODULE Spec2Model ----
(***************************************************************************)
(* paintr: the plane stack of crates/paintr/src/plane.rs and the command   *)
(* delegate of crates/paintr/src/main.rs.                                   *)
(*                                                                          *)
(* Three specifications share the module:                                   *)
(*   PlanesSpec  a Planes value driven through its public API (push, mov)   *)
(*   Spec        the AppState under undo, redo, paste, new image and edits  *)
(*   DocSpec     the AppState under open, save, copy, select, new, paste    *)
(***************************************************************************)
EXTENDS Integers, Sequences, FiniteSets, TLC

VARIABLES
    planes,         \* Planes.planes: Vec<PlaneData>                 (PlanesSpec)
    ret,            \* the operation last called on `planes` and what it returned
    sumDeltas,      \* history: sum of the deltas given to mov since the last push
    canvas,         \* AppState.editor.canvas: Option<CanvasData>    (Spec)
    history,        \* AppState.editor.history: UndoHistory, [done, undone]
    notifications   \* AppState.notifications: Arc<Vec<Notification>>

planesVars == <<planes, ret, sumDeltas>>
appVars == <<canvas, history, notifications>>
vars == <<planes, ret, sumDeltas, canvas, history, notifications>>

----------------------------------------------------------------------------
(* Bounds *)

MaxPlanes == 2      \* planes in one stack
MaxDim == 2         \* width and height of an input image
MaxOff == 1         \* largest x and y of a plane offset (the smallest is -1)
MaxHist == 2        \* entries in done and undone together
MaxNotif == 3       \* notifications shown
MaxRun == 2         \* consecutive do_edit calls of one run

----------------------------------------------------------------------------
(* Option<T>, Vec2 / Point, Size *)

None == [some |-> FALSE]
Some(v) == [some |-> TRUE, val |-> v]

Vec2(x, y) == [x |-> x, y |-> y]
ZERO == Vec2(0, 0)
VecAdd(a, b) == Vec2(a.x + b.x, a.y + b.y)
Size(w, h) == [width |-> w, height |-> h]

Max(a, b) == IF a >= b THEN a ELSE b

----------------------------------------------------------------------------
(* Images: DynamicImage as a pixel format and a width x height grid *)

Transparent == "transparent"
Colours == {"red", "blue"}

Grid(w, h) == (0 .. w - 1) \X (0 .. h - 1)

Solid(w, h, fmt, c) ==
    [width |-> w, height |-> h, fmt |-> fmt, px |-> [p \in Grid(w, h) |-> c]]

\* image::DynamicImage::new_rgba8: every pixel zero, i.e. transparent
new_rgba8(w, h) == Solid(w, h, "Rgba8", Transparent)

\* Arc<DynamicImage>: an image and the allocation (ptr) that holds it
ArcImage(ptr, img) ==
    [ptr |-> ptr, width |-> img.width, height |-> img.height, fmt |-> img.fmt, px |-> img.px]

\* the shared buffers a caller holds and hands to push
Images == {ArcImage(1, Solid(1, 1, "Rgba8", "red")),
           ArcImage(2, Solid(MaxDim, 1, "Rgba8", "blue")),
           ArcImage(3, Solid(1, MaxDim, "Rgba8", "red")),
           ArcImage(4, Solid(MaxDim, MaxDim, "Rgba8", "blue"))}

\* the deltas a caller hands to mov
Deltas == {Vec2(1, 0), Vec2(0, 1), Vec2(-1, 0), Vec2(0, -1), Vec2(1, 1)}

InRange(v) == v.x \in -1 .. MaxOff /\ v.y \in -1 .. MaxOff

----------------------------------------------------------------------------
(* plane.rs: Plane, PlaneData, Planes *)

\* Arc::new: an allocation distinct from every live one
FreshArc(live) == CHOOSE n \in 1 .. Cardinality(live) + 1 :
    n \notin live /\ \A m \in 1 .. n - 1 : m \in live

PlaneData(inner, img, transform) ==
    [inner |-> inner, image |-> img, transform |-> transform]

ArcsOf(ps) == {ps[i].inner : i \in 1 .. Len(ps)}

\* Paintable for DynamicImage: the buffer's dimensions
image_paint_size(img) == Some(Size(img.width, img.height))

\* Paintable for Plane
paint_size(pd) == image_paint_size(pd.image)

RECURSIVE max_size_fold(_, _, _)
max_size_fold(acc, ps, i) ==
    IF i > Len(ps) THEN acc
    ELSE LET size == paint_size(ps[i])
             nxt == IF ~acc.some THEN size
                    ELSE IF ~size.some THEN acc
                    ELSE Some(Size(Max(acc.val.width, size.val.width),
                                   Max(acc.val.height, size.val.height)))
         IN  max_size_fold(nxt, ps, i + 1)

max_size(ps) == max_size_fold(None, ps, 1)

\* image_utils::merge_image: src drawn over dst at the offset, clipped to dst
merge_image(dst, src, transform) ==
    [dst EXCEPT !.px = [p \in Grid(dst.width, dst.height) |->
        LET q == <<p[1] - transform.x, p[2] - transform.y>>
        IN  IF q \in Grid(src.width, src.height) /\ src.px[q] # Transparent
            THEN src.px[q] ELSE dst.px[p]]]

RECURSIVE merge_planes(_, _, _)
merge_planes(img, ps, i) ==
    IF i > Len(ps) THEN img
    ELSE merge_planes(merge_image(img, ps[i].image, ps[i].transform), ps, i + 1)

\* a buffer of (width, height) with every plane merged in, in stack order
merge_into(size, ps) == merge_planes(new_rgba8(size.width, size.height), ps, 1)

\* merged with the buffer allocated at the size of the bottom plane alone
merged_bottom_size(ps) ==
    IF ~max_size(ps).some THEN None
    ELSE Some(merge_into(paint_size(ps[1]).val, ps))

\* Planes::merged
merged(ps) ==
    LET size == max_size(ps)
    IN  IF ~size.some THEN None ELSE Some(merge_into(size.val, ps))

\* the positions a RenderContext shows
Screen == (-1 .. MaxOff + MaxDim) \X (-1 .. MaxOff + MaxDim)

\* a RenderContext nothing was painted on
Blank == [p \in Screen |-> Transparent]

\* Paintable for DynamicImage under the context's current translation
image_paint(ctx, img, translate) ==
    [p \in Screen |->
        LET q == <<p[1] - translate.x, p[2] - translate.y>>
        IN  IF q \in Grid(img.width, img.height) /\ img.px[q] # Transparent
            THEN img.px[q] ELSE ctx[p]]

RECURSIVE paint_fold(_, _, _)
paint_fold(ctx, ps, i) ==
    IF i > Len(ps) THEN ctx
    ELSE paint_fold(image_paint(ctx, ps[i].image, ps[i].transform), ps, i + 1)

\* Paintable for Planes
paint(ctx, ps) == paint_fold(ctx, ps, 1)

\* push that puts the plane under the others and returns the bottom position
push_front(ps, img, live) ==
    [planes |-> <<PlaneData(FreshArc(live), img, ZERO)>> \o ps, index |-> 0]

\* Planes::push: [planes', PlaneIndex]
push(ps, img, live) ==
    LET ps2 == Append(ps, PlaneData(FreshArc(live), img, ZERO))
    IN  [planes |-> ps2, index |-> Len(ps2) - 1]

\* mov that stores the delta as the offset instead of adding it
mov_assign(ps, offset) ==
    IF Len(ps) = 0 THEN [planes |-> ps, point |-> None]
    ELSE [planes |-> [ps EXCEPT ![Len(ps)].transform = offset], point |-> Some(offset)]

\* mov that answers an empty stack with the delta it was given
mov_empty_some(ps, offset) ==
    IF Len(ps) = 0 THEN [planes |-> ps, point |-> Some(offset)]
    ELSE LET n == Len(ps)
             t == VecAdd(ps[n].transform, offset)
         IN  [planes |-> [ps EXCEPT ![n].transform = t], point |-> Some(t)]

\* Planes::mov: [planes', Option<Point>]
mov(ps, offset) ==
    IF Len(ps) = 0 THEN [planes |-> ps, point |-> None]
    ELSE LET n == Len(ps)
             t == VecAdd(ps[n].transform, offset)
         IN  [planes |-> [ps EXCEPT ![n].transform = t], point |-> Some(t)]

----------------------------------------------------------------------------
(* plane.rs: PartialEq for Planes, Data::same *)

RECURSIVE all_ptr_eq(_, _, _)
all_ptr_eq(a, b, i) ==
    IF i > Len(a) THEN TRUE
    ELSE a[i].inner = b[i].inner /\ all_ptr_eq(a, b, i + 1)

\* an equality that also compares the offsets
planes_eq_offsets(a, b) ==
    /\ Len(a) = Len(b)
    /\ \A i \in 1 .. Len(a) : a[i].inner = b[i].inner /\ a[i].transform = b[i].transform

\* PartialEq for Planes
planes_eq(a, b) == IF Len(a) # Len(b) THEN FALSE ELSE all_ptr_eq(a, b, 1)

\* Data::same for Planes
same(a, b) == planes_eq(a, b)

----------------------------------------------------------------------------
(* paintr_core: CanvasData, Edit, EditKind, UndoHistory, EditorState *)

NEW_FILE_NAME == "Untitled"

Kinds == {"Mergeable", "NonMergeable"}

\* CanvasData::new: one plane at zero offset, no selection
CanvasData_new(path, img, live) ==
    [path |-> path, planes |-> push(<<>>, img, live).planes, selection |-> None]

\* what a canvas shows and is called, whatever allocations hold it
Content(c) ==
    [path |-> c.path, selection |-> c.selection,
     planes |-> [i \in 1 .. Len(c.planes) |->
                    [image |-> c.planes[i].image, transform |-> c.planes[i].transform]]]

\* actions::Paste::new
Paste(img) == [type |-> "Paste", img |-> img]

\* a drag of the topmost plane
Move(offset) == [type |-> "Move", offset |-> offset]

\* Edit::description
description(edit) == edit.type

\* Edit::apply
edit_apply(edit, c, live) ==
    IF edit.type = "Paste"
    THEN [c EXCEPT !.planes = push(c.planes, edit.img, live).planes]
    ELSE [c EXCEPT !.planes = mov(c.planes, edit.offset).planes]

\* Data::same for CanvasData
canvas_same(a, b) ==
    a.path = b.path /\ same(a.planes, b.planes) /\ a.selection = b.selection

\* two edits of the same logical operation family
mergeable(edit, top) == edit.type = top.type

\* the allocations a canvas holds
CanvasArcs(c) == ArcsOf(c.planes)

\* the allocations alive in the editor: the canvas and the snapshots of the history
LiveArcs(c, h) ==
    (IF c.some THEN CanvasArcs(c.val) ELSE {})
    \cup UNION {CanvasArcs(h.done[i].old) : i \in 1 .. Len(h.done)}
    \cup UNION {CanvasArcs(h.undone[i].old) : i \in 1 .. Len(h.undone)}

\* an entry of the history: the edit, how it was submitted, the canvas it was
\* applied to, and (history field) what the canvas showed right after it
Entry(edit, kind, old, new) ==
    [edit |-> edit, kind |-> kind, old |-> old, after |-> Content(new)]

\* EditorState::do_edit / UndoHistory: [canvas', history', applied]
do_edit(c, h, edit, kind) ==
    IF ~c.some THEN [canvas |-> c, history |-> h, applied |-> FALSE]
    ELSE LET new == edit_apply(edit, c.val, LiveArcs(c, h))
             entry == Entry(edit, kind, c.val, new)
             n == Len(h.done)
             merge == /\ kind = "Mergeable" /\ n > 0
                      /\ h.done[n].kind = "Mergeable"
                      /\ mergeable(edit, h.done[n].edit)
         IN  [canvas |-> Some(new),
              history |-> [done |-> IF merge THEN [h.done EXCEPT ![n] = entry]
                                    ELSE Append(h.done, entry),
                           undone |-> <<>>],
              applied |-> TRUE]

\* EditorState::do_undo: [canvas', history', Option<description>]
do_undo(c, h) ==
    IF Len(h.done) = 0 \/ ~c.some THEN [canvas |-> c, history |-> h, desc |-> None]
    ELSE LET n == Len(h.done)
         IN  [canvas |-> Some(h.done[n].old),
              history |-> [done |-> SubSeq(h.done, 1, n - 1),
                           undone |-> Append(h.undone, h.done[n])],
              desc |-> Some(description(h.done[n].edit))]

\* EditorState::do_redo: [canvas', history', Option<description>]
do_redo(c, h) ==
    IF Len(h.undone) = 0 \/ ~c.some THEN [canvas |-> c, history |-> h, desc |-> None]
    ELSE LET n == Len(h.undone)
             e == h.undone[n]
             new == edit_apply(e.edit, c.val, LiveArcs(c, h))
         IN  [canvas |-> Some(new),
              history |-> [done |-> Append(h.done, Entry(e.edit, e.kind, c.val, new)),
                           undone |-> SubSeq(h.undone, 1, n - 1)],
              desc |-> Some(description(e.edit))]

\* CanvasData::merged: the flattened raster of the canvas's plane stack
canvas_merged(c) == merged(c.planes).val

\* a rectangular Selection
Rect(x, y, w, h) == [x |-> x, y |-> y, w |-> w, h |-> h]

InRect(sel, p) ==
    /\ p[1] >= sel.x /\ p[1] < sel.x + sel.w
    /\ p[2] >= sel.y /\ p[2] < sel.y + sel.h

\* the sub-image of img whose corners are the least and greatest of the positions ps
Crop(img, ps) ==
    LET x0 == CHOOSE x \in {p[1] : p \in ps} : \A p \in ps : x <= p[1]
        x1 == CHOOSE x \in {p[1] : p \in ps} : \A p \in ps : x >= p[1]
        y0 == CHOOSE y \in {p[2] : p \in ps} : \A p \in ps : y <= p[2]
        y1 == CHOOSE y \in {p[2] : p \in ps} : \A p \in ps : y >= p[2]
    IN  [width |-> x1 - x0 + 1, height |-> y1 - y0 + 1, fmt |-> img.fmt,
         px |-> [q \in Grid(x1 - x0 + 1, y1 - y0 + 1) |-> img.px[<<q[1] + x0, q[2] + y0>>]]]

\* Selection::copy: None when the selection misses the raster; Shrink crops to
\* the content inside the selection, Exact to the selection inside the raster
selection_copy(sel, img, mode) ==
    LET inside == {p \in Grid(img.width, img.height) : InRect(sel, p)}
        content == {p \in inside : img.px[p] # Transparent}
        kept == IF mode = "Shrink" THEN content ELSE inside
    IN  IF kept = {} THEN None ELSE Some(Crop(img, kept))

\* CanvasData::select / clear selection: the plane stack is left alone
set_selection(c, sel) == [c EXCEPT !.selection = sel]

\* CanvasData::save: merged() handed to the codec, whose answer is returned
canvas_save(c, path, enc) == [canvas |-> c, res |-> enc]

----------------------------------------------------------------------------
(* main.rs: AppState, Delegate *)

\* to_rgba that hands every image back as it came
to_rgba_keep(img) == img

\* to_rgba: an RGBA8 buffer is kept, any other is converted (to_rgba8)
to_rgba(img) == IF img.fmt = "Rgba8" THEN img ELSE [img EXCEPT !.fmt = "Rgba8"]

\* Notification::info, Notification::error
info(text) == [level |-> "info", text |-> text]
error(text) == [level |-> "error", text |-> text]

\* AppState::show_notification
show_notification(ns, n) == Append(ns, n)

\* Result<T, Error>
Ok(v) == [ok |-> TRUE, val |-> v]
Err(e) == [ok |-> FALSE, err |-> e]

\* get_image_from_clipboard(): what the platform may answer
ClipImages == {Solid(1, 1, "Rgb8", "red")}
ClipResults == {Err("clipboard unavailable"), Ok(None)} \cup {Ok(Some(img)) : img \in ClipImages}

\* the settings the new-file dialog hands over (width, height already validated)
NewFileSettings == {Size(MaxDim, MaxDim)}

\* the edits the tools submit, and the kinds they submit them with
ToolEdits == {Paste(Solid(1, 1, "Rgba8", "red")), Move(Vec2(1, 0))}

\* AppState::do_new_image_from_clipboard: [canvas', Result<()>]
do_new_image_from_clipboard(c, h, clip) ==
    IF ~clip.ok THEN [canvas |-> c, res |-> clip]
    ELSE IF ~clip.val.some
    THEN [canvas |-> c, res |-> Err("Clipboard is empty / non-image")]
    ELSE [canvas |-> Some(CanvasData_new(NEW_FILE_NAME, to_rgba(clip.val.val), LiveArcs(c, h))),
          res |-> Ok("unit")]

\* AppState::do_new_image: [canvas', Result<()>]
do_new_image(c, h, settings) ==
    [canvas |-> Some(CanvasData_new(NEW_FILE_NAME,
                        Solid(settings.width, settings.height, "Rgba8", "white"),
                        LiveArcs(c, h))),
     res |-> Ok("unit")]

\* do_paste that submits the edit as Mergeable
do_paste_mergeable(c, h, clip) ==
    IF ~clip.ok THEN [canvas |-> c, history |-> h, res |-> clip]
    ELSE IF ~clip.val.some THEN [canvas |-> c, history |-> h, res |-> Ok(FALSE)]
    ELSE LET r == do_edit(c, h, Paste(to_rgba(clip.val.val)), "Mergeable")
         IN  [canvas |-> r.canvas, history |-> r.history, res |-> Ok(r.applied)]

\* do_paste that pushes the image onto the canvas without going through do_edit
do_paste_direct(c, h, clip) ==
    IF ~clip.ok THEN [canvas |-> c, history |-> h, res |-> clip]
    ELSE IF ~clip.val.some THEN [canvas |-> c, history |-> h, res |-> Ok(FALSE)]
    ELSE IF ~c.some THEN [canvas |-> c, history |-> h, res |-> Ok(FALSE)]
    ELSE [canvas |-> Some(edit_apply(Paste(to_rgba(clip.val.val)), c.val, LiveArcs(c, h))),
          history |-> h, res |-> Ok(TRUE)]

\* do_paste that reports an empty clipboard as an error
do_paste_empty_is_error(c, h, clip) ==
    IF ~clip.ok THEN [canvas |-> c, history |-> h, res |-> clip]
    ELSE IF ~clip.val.some
    THEN [canvas |-> c, history |-> h, res |-> Err("Clipboard is empty / non-image")]
    ELSE LET r == do_edit(c, h, Paste(to_rgba(clip.val.val)), "NonMergeable")
         IN  [canvas |-> r.canvas, history |-> r.history, res |-> Ok(r.applied)]

\* AppState::do_paste: [canvas', history', Result<bool>]
do_paste(c, h, clip) ==
    IF ~clip.ok THEN [canvas |-> c, history |-> h, res |-> clip]
    ELSE IF ~clip.val.some THEN [canvas |-> c, history |-> h, res |-> Ok(FALSE)]
    ELSE LET r == do_edit(c, h, Paste(to_rgba(clip.val.val)), "NonMergeable")
         IN  [canvas |-> r.canvas, history |-> r.history, res |-> Ok(r.applied)]

\* image::open(path): what the codec may answer
Paths == {"a.png"}
DecodeResults == {Err("decode failed"), Ok(Solid(1, 1, "Rgb8", "blue"))}

\* CanvasData::save's codec: what it may answer
EncodeResults == {Err("encode failed"), Ok("unit")}

\* put_image_to_clipboard: what the platform may answer
PutResults == {Err("clipboard unavailable"), Ok("unit")}

\* the selections the select tool makes: one inside every canvas, one outside all
Selections == {Rect(0, 0, 1, 1), Rect(MaxDim, MaxDim, 1, 1)}

\* do_open_image that closes the open document when the file cannot be decoded
do_open_image_closes(c, h, path, dec) ==
    IF ~dec.ok THEN [canvas |-> None, res |-> dec]
    ELSE [canvas |-> Some(CanvasData_new(path, to_rgba(dec.val), LiveArcs(c, h))),
          res |-> Ok("unit")]

\* AppState::do_open_image: [canvas', Result<()>]
do_open_image(c, h, path, dec) ==
    IF ~dec.ok THEN [canvas |-> c, res |-> dec]
    ELSE [canvas |-> Some(CanvasData_new(path, to_rgba(dec.val), LiveArcs(c, h))),
          res |-> Ok("unit")]

\* AppState::do_save_as_image: [canvas', Result<()>]
do_save_as_image(c, path, enc) ==
    IF ~c.some THEN [canvas |-> c, res |-> Err("No image was found.")]
    ELSE LET r == canvas_save(c.val, path, enc)
         IN  [canvas |-> Some(r.canvas), res |-> r.res]

\* do_copy that copies the whole merged raster when nothing is selected
do_copy_whole(c, h, put) ==
    LET img == IF ~c.some THEN None
               ELSE IF ~c.val.selection.some THEN Some(canvas_merged(c.val))
               ELSE selection_copy(c.val.selection.val, canvas_merged(c.val), "Shrink")
    IN  IF ~img.some
        THEN [canvas |-> c, history |-> h, res |-> Ok(FALSE), put |-> None, written |-> FALSE]
        ELSE IF ~put.ok
        THEN [canvas |-> c, history |-> h, res |-> put, put |-> img, written |-> FALSE]
        ELSE [canvas |-> c, history |-> h, res |-> Ok(TRUE), put |-> img, written |-> TRUE]

\* AppState::do_copy: [canvas', history', Result<bool>, the image handed to
\* put_image_to_clipboard if it was called, whether the clipboard took it]
do_copy(c, h, put) ==
    LET img == IF ~c.some THEN None
               ELSE IF ~c.val.selection.some THEN None
               ELSE selection_copy(c.val.selection.val, canvas_merged(c.val), "Shrink")
    IN  IF ~img.some
        THEN [canvas |-> c, history |-> h, res |-> Ok(FALSE), put |-> None, written |-> FALSE]
        ELSE IF ~put.ok
        THEN [canvas |-> c, history |-> h, res |-> put, put |-> img, written |-> FALSE]
        ELSE [canvas |-> c, history |-> h, res |-> Ok(TRUE), put |-> img, written |-> TRUE]

\* AppState::image_file_name
image_file_name(c) == IF ~c.some THEN NEW_FILE_NAME ELSE c.val.path

\* what a command leaves behind: the AppState fields, the Result of
\* handle_command and the value of the do_* call it made
Outcome(c, h, ns, res, val) ==
    [canvas |-> c, history |-> h, notifications |-> ns, res |-> res, val |-> val]

\* the undo handler notifying whether or not anything was undone
handle_undo_always_notifies(c, h, ns) ==
    LET r == do_undo(c, h)
    IN  Outcome(r.canvas, r.history,
                show_notification(ns, info(<<"Undo", r.desc>>)), Ok("Yes"), r.desc)

\* the undo handler calling do_redo
handle_undo_calls_redo(c, h, ns) ==
    LET r == do_redo(c, h)
    IN  Outcome(r.canvas, r.history,
                IF r.desc.some THEN show_notification(ns, info(<<"Undo", r.desc.val>>)) ELSE ns,
                Ok("Yes"), r.desc)

\* Delegate::handle_command, EDIT_UNDO_ACTION
handle_undo(c, h, ns) ==
    LET r == do_undo(c, h)
    IN  Outcome(r.canvas, r.history,
                IF r.desc.some THEN show_notification(ns, info(<<"Undo", r.desc.val>>)) ELSE ns,
                Ok("Yes"), r.desc)

\* the redo handler calling do_undo
handle_redo_calls_undo(c, h, ns) ==
    LET r == do_undo(c, h)
    IN  Outcome(r.canvas, r.history,
                IF r.desc.some THEN show_notification(ns, info(<<"Redo", r.desc.val>>)) ELSE ns,
                Ok("Yes"), r.desc)

\* Delegate::handle_command, EDIT_REDO_ACTION
handle_redo(c, h, ns) ==
    LET r == do_redo(c, h)
    IN  Outcome(r.canvas, r.history,
                IF r.desc.some THEN show_notification(ns, info(<<"Redo", r.desc.val>>)) ELSE ns,
                Ok("Yes"), r.desc)

\* Delegate::handle_command, EDIT_PASTE_ACTION
handle_paste(c, h, ns, clip) ==
    LET r == do_paste(c, h, clip)
    IN  IF ~r.res.ok THEN Outcome(r.canvas, r.history, ns, r.res, r.res)
        ELSE Outcome(r.canvas, r.history,
                     IF r.res.val THEN show_notification(ns, info(<<"Pasted">>)) ELSE ns,
                     Ok("Yes"), r.res)

\* Delegate::handle_command, FILE_NEW_CLIPBOARD_ACTION
handle_new_clipboard(c, h, ns, clip) ==
    LET r == do_new_image_from_clipboard(c, h, clip)
    IN  IF ~r.res.ok THEN Outcome(r.canvas, h, ns, r.res, r.res)
        ELSE Outcome(r.canvas, h, show_notification(ns, info(<<"New file created">>)),
                     Ok("Yes"), r.res)

\* the new-image handler starting the new document with an empty history
handle_new_image_resets(c, h, ns, settings) ==
    LET r == do_new_image(c, h, settings)
    IN  Outcome(r.canvas, [done |-> <<>>, undone |-> <<>>],
                show_notification(ns, info(<<"New file created">>)), Ok("Yes"), r.res)

\* Delegate::handle_command, NEW_IMAGE_ACTION
handle_new_image(c, h, ns, settings) ==
    LET r == do_new_image(c, h, settings)
    IN  Outcome(r.canvas, h, show_notification(ns, info(<<"New file created">>)),
                Ok("Yes"), r.res)

\* Delegate::handle_command, OPEN_FILE
handle_open(c, h, ns, path, dec) ==
    LET r == do_open_image(c, h, path, dec)
    IN  IF ~r.res.ok THEN Outcome(r.canvas, h, ns, r.res, r.res)
        ELSE Outcome(r.canvas, h,
                     show_notification(ns, info(<<image_file_name(r.canvas), "opened">>)),
                     Ok("Yes"), r.res)

\* Delegate::handle_command, SAVE_FILE_AS
handle_save(c, h, ns, path, enc) ==
    LET r == do_save_as_image(c, path, enc)
    IN  IF ~r.res.ok THEN Outcome(r.canvas, h, ns, r.res, r.res)
        ELSE Outcome(r.canvas, h,
                     show_notification(ns, info(<<image_file_name(r.canvas), "saved">>)),
                     Ok("Yes"), r.res)

\* Delegate::handle_command, EDIT_COPY_ACTION
handle_copy(c, h, ns, put) ==
    LET r == do_copy(c, h, put)
    IN  IF ~r.res.ok THEN Outcome(r.canvas, r.history, ns, r.res, r.res)
        ELSE Outcome(r.canvas, r.history,
                     IF r.res.val THEN show_notification(ns, info(<<"Copied">>)) ELSE ns,
                     Ok("Yes"), r.res)

\* command that swallows an error without telling the user
command_drops_error(out) ==
    IF out.res.ok THEN [out EXCEPT !.res = out.res.val]
    ELSE [out EXCEPT !.res = "Yes"]

\* AppDelegate::command: an error becomes an error notification, handled
command(out) ==
    IF out.res.ok THEN [out EXCEPT !.res = out.res.val]
    ELSE [out EXCEPT !.notifications = show_notification(out.notifications, error(<<out.res.err>>)),
                     !.res = "Yes"]

----------------------------------------------------------------------------
(* PlanesSpec: a Planes value under push and mov *)

PlanesInit ==
    /\ planes = <<>>
    /\ ret = [op |-> "new", val |-> None]
    /\ sumDeltas = ZERO

Push(img) ==
    /\ Len(planes) < MaxPlanes
    /\ LET r == push(planes, img, ArcsOf(planes))
       IN  /\ planes' = r.planes
           /\ ret' = [op |-> "push", val |-> r.index]
    /\ sumDeltas' = ZERO

Mov(offset) ==
    /\ Len(planes) > 0 => InRange(VecAdd(planes[Len(planes)].transform, offset))
    /\ LET r == mov(planes, offset)
       IN  /\ planes' = r.planes
           /\ ret' = [op |-> "mov", val |-> r.point]
    /\ sumDeltas' = IF Len(planes) > 0 THEN VecAdd(sumDeltas, offset) ELSE sumDeltas

AppInit ==
    /\ canvas = None
    /\ history = [done |-> <<>>, undone |-> <<>>]
    /\ notifications = <<>>

Init == PlanesInit /\ AppInit

PlanesNext ==
    \/ \E img \in Images : Push(img) /\ UNCHANGED appVars
    \/ \E offset \in Deltas : Mov(offset) /\ UNCHANGED appVars

PlanesSpec == Init /\ [][PlanesNext]_vars

----------------------------------------------------------------------------
(* Spec: the AppState under the commands of the delegate and the tools *)

\* the part of the state space explored
Bounded(out) ==
    /\ Len(out.notifications) <= MaxNotif
    /\ Len(out.history.done) + Len(out.history.undone) <= MaxHist
    /\ out.canvas.some =>
        /\ Len(out.canvas.val.planes) <= MaxPlanes
        /\ \A i \in 1 .. Len(out.canvas.val.planes) : InRange(out.canvas.val.planes[i].transform)

\* a command dispatched through AppDelegate::command
Dispatch(handled) ==
    \E out \in {command(handled)} :
        /\ Bounded(out)
        /\ canvas' = out.canvas
        /\ history' = out.history
        /\ notifications' = out.notifications

EditUndo == Dispatch(handle_undo(canvas, history, notifications))

EditRedo == Dispatch(handle_redo(canvas, history, notifications))

EditPaste(clip) ==
    Dispatch(handle_paste(canvas, history, notifications, clip))

NewImage(settings) ==
    Dispatch(handle_new_image(canvas, history, notifications, settings))

\* a command no branch of handle_command matches
OtherCommand ==
    Dispatch(Outcome(canvas, history, notifications, Ok("No"), None))

\* a tool submitting an edit through EditorState::do_edit
ToolEdit(edit, kind) ==
    \E r \in {do_edit(canvas, history, edit, kind)} :
        /\ Bounded([canvas |-> r.canvas, history |-> r.history, notifications |-> notifications])
        /\ canvas' = r.canvas
        /\ history' = r.history
        /\ UNCHANGED notifications

Next ==
    \/ EditUndo /\ UNCHANGED planesVars
    \/ EditRedo /\ UNCHANGED planesVars
    \/ \E clip \in ClipResults : EditPaste(clip) /\ UNCHANGED planesVars
    \/ \E settings \in NewFileSettings : NewImage(settings) /\ UNCHANGED planesVars
    \/ OtherCommand /\ UNCHANGED planesVars
    \/ \E edit \in ToolEdits, kind \in Kinds : ToolEdit(edit, kind) /\ UNCHANGED planesVars

Spec == Init /\ [][Next]_vars

----------------------------------------------------------------------------
(* DocSpec: the AppState under the document, clipboard and selection commands *)

FileNewClipboard(clip) ==
    Dispatch(handle_new_clipboard(canvas, history, notifications, clip))

OpenFile(path, dec) ==
    Dispatch(handle_open(canvas, history, notifications, path, dec))

SaveFileAs(path, enc) ==
    Dispatch(handle_save(canvas, history, notifications, path, enc))

EditCopy(put) ==
    Dispatch(handle_copy(canvas, history, notifications, put))

\* the select tool making or clearing the selection of the open canvas
Select(sel) ==
    /\ canvas.some
    /\ canvas' = Some(set_selection(canvas.val, sel))
    /\ UNCHANGED <<history, notifications>>

DocNext ==
    \/ \E clip \in ClipResults : FileNewClipboard(clip) /\ UNCHANGED planesVars
    \/ \E path \in Paths, dec \in DecodeResults :
            OpenFile(path, dec) /\ UNCHANGED planesVars
    \/ \E path \in Paths, enc \in EncodeResults :
            SaveFileAs(path, enc) /\ UNCHANGED planesVars
    \/ \E put \in PutResults : EditCopy(put) /\ UNCHANGED planesVars
    \/ \E sel \in {None} \cup {Some(r) : r \in Selections} :
            Select(sel) /\ UNCHANGED planesVars
    \/ \E settings \in NewFileSettings : NewImage(settings) /\ UNCHANGED planesVars
    \/ \E clip \in ClipResults : EditPaste(clip) /\ UNCHANGED planesVars

DocSpec == Init /\ [][DocNext]_vars

----------------------------------------------------------------------------
(* Properties of the plane stack (PlanesSpec) *)

\* the union bounding box: component-wise maximum of offset + paint size
RECURSIVE BoundingBox(_, _, _)
BoundingBox(acc, ps, i) ==
    IF i > Len(ps) THEN acc
    ELSE LET size == paint_size(ps[i])
             far == Size(ps[i].transform.x + size.val.width,
                         ps[i].transform.y + size.val.height)
             nxt == IF ~size.some THEN acc
                    ELSE IF ~acc.some THEN Some(far)
                    ELSE Some(Size(Max(acc.val.width, far.width),
                                   Max(acc.val.height, far.height)))
         IN  BoundingBox(nxt, ps, i + 1)

\* C1: max_size() is the component-wise maximum over all planes of
\* (offset + paint size), and None exactly when no plane has a size.
C1_MaxSizeIsBoundingBox == max_size(planes) = BoundingBox(None, planes, 1)

\* C2: merged() of a non-empty stack is a buffer whose width and height are
\* max_size(); merged() of an empty stack is None.
C2_MergedHasMaxSize ==
    LET m == merged(planes)
        size == max_size(planes)
    IN  /\ Len(planes) = 0 => m = None
        /\ Len(planes) > 0 =>
            /\ m.some /\ size.some
            /\ m.val.width = size.val.width /\ m.val.height = size.val.height
            /\ DOMAIN m.val.px = Grid(size.val.width, size.val.height)

C2_Witness ==
    /\ Len(planes) = 2
    /\ planes[1].transform # ZERO /\ planes[2].transform # ZERO
    /\ paint_size(planes[1]) # paint_size(planes[2])
    /\ merged(planes).some
    /\ merged(planes).val.width = MaxDim /\ merged(planes).val.height = MaxDim

\* C3: painting the stack plane by plane shows, at every position, the pixel
\* that painting merged() at offset zero shows.
C3_PaintEqualsMerged ==
    LET m == merged(planes)
    IN  m.some => \A p \in Screen :
            paint(Blank, planes)[p] = image_paint(Blank, m.val, ZERO)[p]

\* C10: mov on a non-empty stack adds the delta to the offset of the topmost
\* plane only, returns that plane's resulting offset (the sum of the deltas it
\* was given since it was pushed), and leaves the number of planes, every
\* buffer and every other offset as they were.
C10_MovFrame ==
    [][(ret'.op = "mov" /\ Len(planes) > 0) =>
        LET n == Len(planes)
            delta == Vec2(sumDeltas'.x - sumDeltas.x, sumDeltas'.y - sumDeltas.y)
        IN  /\ Len(planes') = n
            /\ planes'[n].transform = VecAdd(planes[n].transform, delta)
            /\ ret'.val = Some(planes'[n].transform)
            /\ ret'.val = Some(sumDeltas')
            /\ \A i \in 1 .. n : /\ planes'[i].inner = planes[i].inner
                                 /\ planes'[i].image = planes[i].image
            /\ \A i \in 1 .. n - 1 : planes'[i].transform = planes[i].transform
    ]_vars

C10_Witness ==
    /\ ret.op = "mov" /\ Len(planes) = 2
    /\ planes[1].transform = Vec2(1, 1)
    /\ planes[2].transform = Vec2(1, -1) /\ ret.val = Some(Vec2(1, -1))
    /\ sumDeltas = Vec2(1, -1)

\* C11: mov on an empty stack returns None and leaves the stack empty; the
\* call completes (the step is taken) whatever the delta.
C11_MovOnEmpty ==
    [][(ret'.op = "mov" /\ Len(planes) = 0) =>
        /\ ret'.val = None
        /\ planes' = <<>>
        /\ \A offset \in Deltas : mov(planes, offset) = [planes |-> <<>>, point |-> None]
    ]_vars

C11_Witness == ret.op = "mov" /\ ret.val = None /\ planes = <<>>

\* C12: push appends the plane on top with zero offset, leaves every plane
\* already there and its offset unchanged and returns the position of the new
\* plane; no push or mov removes a plane or puts another plane at a position
\* a handle was returned for.
C12_PushStableHandle ==
    [][LET n == Len(planes)
       IN  /\ Len(planes') >= n
           /\ \A i \in 1 .. n : /\ planes'[i].inner = planes[i].inner
                                 /\ planes'[i].image = planes[i].image
           /\ ret'.op = "push" =>
                /\ Len(planes') = n + 1
                /\ SubSeq(planes', 1, n) = planes
                /\ planes'[n + 1].transform = ZERO
                /\ planes'[n + 1].inner \notin ArcsOf(planes)
                /\ planes'[n + 1].image \in Images
                /\ ret'.val = n
    ]_vars

C12_Witness ==
    /\ ret.op = "push" /\ ret.val = 1 /\ Len(planes) = 2
    /\ planes[1].transform = Vec2(1, -1) /\ planes[2].transform = ZERO
    /\ planes[1].inner # planes[2].inner

\* position by position the same shared buffer instance
SameBuffers(a, b) ==
    /\ Len(a) = Len(b)
    /\ \A i \in 1 .. Len(a) : a[i].image.ptr = b[i].image.ptr

\* Planes::new followed by one push per handle of hs, in order
RECURSIVE PushAll(_, _, _, _)
PushAll(ps, hs, i, live) ==
    IF i > Len(hs) THEN ps
    ELSE LET r == push(ps, hs[i], live)
         IN  PushAll(r.planes, hs, i + 1, live \cup ArcsOf(r.planes))

\* a second stack built from the handles the planes of ps hold
Rebuilt(ps) == PushAll(<<>>, [i \in 1 .. Len(ps) |-> ps[i].image], 1, ArcsOf(ps))

\* a second stack built from buffers constructed anew with the same pixels
Independent(ps) ==
    PushAll(<<>>, [i \in 1 .. Len(ps) |->
                     ArcImage(ps[i].image.ptr + Cardinality(Images), ps[i].image)],
            1, ArcsOf(ps) \cup ArcsOf(Rebuilt(ps)))

\* the stack, a clone of it, the clone moved, its prefix, and the rebuilt stacks
Stacks ==
    {planes, mov(planes, Vec2(1, 0)).planes, SubSeq(planes, 1, Len(planes) - 1),
     Rebuilt(planes), Independent(planes)}

\* C13: two stacks are same() exactly when they have the same length and hold,
\* position by position, the same shared buffer instance: stacks built by
\* pushing the same handles in the same order are same(), stacks of
\* pixel-identical buffers constructed independently are not.
C13_SameIffSameBuffers ==
    \A a, b \in Stacks : same(a, b) <=> SameBuffers(a, b)

\* the pixel of plane pd that lands on position p, given its offset
PlanePixel(pd, p) == pd.image.px[<<p[1] - pd.transform.x, p[2] - pd.transform.y>>]

\* the planes whose translated footprint covers position p
Covering(ps, p) ==
    {i \in 1 .. Len(ps) :
        /\ <<p[1] - ps[i].transform.x, p[2] - ps[i].transform.y>>
                \in Grid(ps[i].image.width, ps[i].image.height)
        /\ PlanePixel(ps[i], p) # Transparent}

\* the positions of a raster: those of the screen at or right of / below the origin
RasterPositions == {p \in Screen : p[1] >= 0 /\ p[2] >= 0}

\* the greatest member of a non-empty set of plane positions
Last(S) == CHOOSE i \in S : \A j \in S : j <= i

\* C15: merged() paints the planes from bottom to top: at every position a
\* plane's translated footprint covers, the merged pixel is that of the last
\* plane covering it (in the two-plane scenario the pixel only B covers is B's),
\* and a position of the raster no plane covers is transparent.
C15_MergedPaintOrder ==
    LET m == merged(planes)
    IN  \A p \in RasterPositions :
            LET cov == Covering(planes, p)
            IN  /\ cov # {} =>
                    /\ m.some
                    /\ p \in Grid(m.val.width, m.val.height)
                    /\ m.val.px[p] = PlanePixel(planes[Last(cov)], p)
                /\ (cov = {} /\ m.some /\ p \in Grid(m.val.width, m.val.height)) =>
                    m.val.px[p] = Transparent

\* the stack as its last push left it: the clone taken before the mov calls
\* made since (mov has touched the offset of the topmost plane only)
AtLastPush(ps) == IF Len(ps) = 0 THEN ps ELSE [ps EXCEPT ![Len(ps)].transform = ZERO]

\* C19: a stack and a clone of it taken before any number of mov calls are
\* same() after those calls, in both directions, whatever the deltas: the
\* clone taken at the last push and the stack now, and the stack now and
\* the stack after one and after two more mov calls.
C19_SameIgnoresOffsets ==
    /\ same(AtLastPush(planes), planes) /\ same(planes, AtLastPush(planes))
    /\ \A d \in Deltas :
        LET clone == planes
            once == mov(planes, d).planes
            twice == mov(once, d).planes
        IN  /\ same(clone, once) /\ same(once, clone)
            /\ same(clone, twice) /\ same(twice, clone)

\* a stack moved since its last push, the clone taken at that push, and a
\* merged raster that differs between the two
C19_Witness ==
    /\ ret.op = "mov" /\ Len(planes) = 2 /\ sumDeltas # ZERO
    /\ LET clone == AtLastPush(planes)
       IN  /\ mov(mov(clone, Vec2(sumDeltas.x, 0)).planes, Vec2(0, sumDeltas.y)).planes = planes
           /\ same(clone, planes)
           /\ merged(clone) # merged(planes)

----------------------------------------------------------------------------
(* Properties of the editor (Spec) *)

\* every edit a tool or the paste command can submit
AllEdits == ToolEdits \cup {Paste(to_rgba(img)) : img \in ClipImages}

Top(seq) == seq[Len(seq)]

RedoIsNoOp(c, h) ==
    LET q == command(handle_redo(c, h, notifications))
    IN  /\ q.val = None
        /\ q.canvas = c /\ q.history = h /\ q.notifications = notifications

C6_EditClearsRedo ==
    /\ \A edit \in AllEdits, kind \in Kinds :
        LET r == do_edit(canvas, history, edit, kind)
        IN  r.applied => r.history.undone = <<>> /\ RedoIsNoOp(r.canvas, r.history)
    /\ \A clip \in ClipResults :
        LET p == do_paste(canvas, history, clip)
        IN  p.res = Ok(TRUE) => p.history.undone = <<>> /\ RedoIsNoOp(p.canvas, p.history)

C6_Witness ==
    /\ Len(notifications) > 0 /\ Top(notifications) = info(<<"Undo", "Move">>)
    /\ Len(history.undone) > 0
    /\ Len(history.done) > 0 /\ Top(history.done).kind = "Mergeable"
    /\ LET r == do_edit(canvas, history, Top(history.done).edit, "Mergeable")
           p == do_paste(canvas, history, Ok(Some(Solid(1, 1, "Rgb8", "red"))))
       IN  /\ r.applied /\ Len(r.history.done) = Len(history.done)
           /\ r.history.undone = <<>>
           /\ p.res = Ok(TRUE) /\ p.history.undone = <<>>

\* n consecutive do_edit calls of one edit with one kind: what each returned
RECURSIVE RunEdits(_, _, _, _, _)
RunEdits(c, h, edit, kind, n) ==
    IF n = 0 THEN <<>>
    ELSE LET first == do_edit(c, h, edit, kind)
         IN  <<first>> \o RunEdits(first.canvas, first.history, edit, kind, n - 1)

\* the top of done is a Mergeable entry of the family of `edit`
TopMerges(h, edit) ==
    /\ Len(h.done) > 0
    /\ Top(h.done).kind = "Mergeable"
    /\ mergeable(edit, Top(h.done).edit)

\* a NonMergeable run of n adds n entries; a paste command that pastes adds one
NonMergeableAdds ==
    /\ \A edit \in AllEdits :
        LET run == RunEdits(canvas, history, edit, "NonMergeable", MaxRun)
        IN  \A n \in 1 .. MaxRun :
                run[n].applied /\ Len(run[n].history.done) = Len(history.done) + n
    /\ \A clip \in ClipResults :
        LET p == do_paste(canvas, history, clip)
        IN  p.res = Ok(TRUE) =>
                /\ Len(p.history.done) = Len(history.done) + 1
                /\ Top(p.history.done).kind = "NonMergeable"

\* a Mergeable edit is never merged into a top entry submitted as NonMergeable
NeverMergedIntoNonMergeable ==
    \A edit \in AllEdits :
        (Len(history.done) > 0 /\ Top(history.done).kind = "NonMergeable") =>
            LET r == do_edit(canvas, history, edit, "Mergeable")
            IN  SubSeq(r.history.done, 1, Len(history.done)) = history.done

NoOpHandled(out) ==
    /\ out.val = None
    /\ out.canvas = canvas /\ out.history = history
    /\ out.notifications = notifications
    /\ out.res = "Yes"

C8_EmptyUndoRedoNoOp ==
    /\ history.done = <<>> =>
        /\ handle_undo(canvas, history, notifications).res = Ok("Yes")
        /\ NoOpHandled(command(handle_undo(canvas, history, notifications)))
    /\ history.undone = <<>> =>
        /\ handle_redo(canvas, history, notifications).res = Ok("Yes")
        /\ NoOpHandled(command(handle_redo(canvas, history, notifications)))

C8_Witness ==
    /\ canvas.some /\ history.done = <<>> /\ Len(history.undone) > 0
    /\ Len(notifications) > 0 /\ Top(notifications) = info(<<"Undo", "Paste">>)
    /\ command(handle_undo(canvas, history, notifications)).val = None
    /\ command(handle_undo(canvas, history, notifications)).res = "Yes"

\* C9: with no image on the clipboard do_paste returns false and submits no
\* edit; canvas, done and undone are unchanged and the paste handler appends
\* no notification.
C9_PasteEmptyClipboard ==
    LET p == do_paste(canvas, history, Ok(None))
        out == command(handle_paste(canvas, history, notifications, Ok(None)))
    IN  /\ p.res = Ok(FALSE)
        /\ p.canvas = canvas /\ p.history = history
        /\ out.val = Ok(FALSE)
        /\ out.canvas = canvas /\ out.history = history
        /\ out.notifications = notifications

C9_Witness ==
    /\ canvas.some /\ Len(history.done) > 0 /\ Len(history.undone) > 0
    /\ Len(notifications) > 0
    /\ handle_paste(canvas, history, notifications, Ok(None)).val = Ok(FALSE)
    /\ handle_paste(canvas, history, notifications, Ok(Some(Solid(1, 1, "Rgb8", "red")))).val
         = Ok(TRUE)

----------------------------------------------------------------------------
(* Properties of the document commands (DocSpec) *)

\* the commands whose handling fails in the current state, by what goes wrong
FailingCommands ==
    {handle_paste(canvas, history, notifications, clip) :
        clip \in {r \in ClipResults : ~r.ok}}
    \cup {handle_new_clipboard(canvas, history, notifications, clip) :
        clip \in {r \in ClipResults : ~r.ok \/ ~r.val.some}}
    \cup {handle_open(canvas, history, notifications, "a.png", dec) :
        dec \in {r \in DecodeResults : ~r.ok}}
    \cup {handle_save(canvas, history, notifications, "a.png", enc) :
        enc \in {r \in EncodeResults : ~canvas.some \/ ~r.ok}}
    \cup {handle_copy(canvas, history, notifications, put) :
        put \in {r \in PutResults : ~r.ok /\ do_copy(canvas, history, Ok("unit")).written}}

\* every command with every answer of the codec, the clipboard and the dialog
AllCommands ==
    {handle_undo(canvas, history, notifications),
     handle_redo(canvas, history, notifications),
     Outcome(canvas, history, notifications, Ok("No"), None)}
    \cup {handle_paste(canvas, history, notifications, clip) : clip \in ClipResults}
    \cup {handle_new_clipboard(canvas, history, notifications, clip) : clip \in ClipResults}
    \cup {handle_open(canvas, history, notifications, path, dec) :
            path \in Paths, dec \in DecodeResults}
    \cup {handle_save(canvas, history, notifications, path, enc) :
            path \in Paths, enc \in EncodeResults}
    \cup {handle_copy(canvas, history, notifications, put) : put \in PutResults}
    \cup {handle_new_image(canvas, history, notifications, settings) :
            settings \in NewFileSettings}

\* C14: when handling a command fails (clipboard unavailable or without an
\* image, decode, encode, save with no canvas), the delegate appends exactly
\* one notification, the error with the error's text, and no success
\* notification, reports the command handled, and the next command is handled
\* as usual.
C14_FailureNotifiesOnce ==
    /\ \A f \in FailingCommands : ~f.res.ok
    /\ \A f \in AllCommands :
        ~f.res.ok =>
            LET out == command(f)
                nxt == command(handle_new_image(out.canvas, out.history, out.notifications,
                                                Size(MaxDim, MaxDim)))
            IN  /\ f.notifications = notifications
                /\ out.notifications = Append(notifications, error(<<f.res.err>>))
                /\ out.res = "Yes"
                /\ nxt.res = "Yes" /\ nxt.canvas.some
                /\ nxt.notifications =
                     Append(out.notifications, info(<<"New file created">>))

C14_Witness ==
    /\ Len(notifications) = 3 /\ canvas.some
    /\ notifications[1] = error(<<"No image was found.">>)
    /\ notifications[2] = info(<<"New file created">>)
    /\ notifications[3] = error(<<"encode failed">>)

\* the canvas is a new single-plane document called path and showing img
IsNewDocument(c, path, img) ==
    /\ c.some
    /\ Content(c.val) = [path |-> path, selection |-> None,
                          planes |-> <<[image |-> img, transform |-> ZERO]>>]

\* C16: an open that fails to decode and a new-image-from-clipboard that
\* finds the clipboard unavailable or without an image leave editor.canvas
\* exactly as it was; the canvas is replaced when, and only when, the raster
\* was obtained.
C16_FailedOpenKeepsCanvas ==
    /\ \A path \in Paths, dec \in DecodeResults :
        LET r == do_open_image(canvas, history, path, dec)
            out == command(handle_open(canvas, history, notifications, path, dec))
        IN  /\ r.res.ok = dec.ok
            /\ ~dec.ok => r.canvas = canvas /\ out.canvas = canvas
            /\ dec.ok => /\ out.canvas = r.canvas /\ r.canvas # canvas
                          /\ IsNewDocument(r.canvas, path, to_rgba(dec.val))
    /\ \A clip \in ClipResults :
        LET r == do_new_image_from_clipboard(canvas, history, clip)
            out == command(handle_new_clipboard(canvas, history, notifications, clip))
            got == clip.ok /\ clip.val.some
        IN  /\ r.res.ok = got
            /\ ~got => r.canvas = canvas /\ out.canvas = canvas
            /\ got => /\ out.canvas = r.canvas /\ r.canvas # canvas
                       /\ IsNewDocument(r.canvas, NEW_FILE_NAME, to_rgba(clip.val.val))

C16_Witness ==
    /\ notifications = <<info(<<"a.png", "opened">>), error(<<"decode failed">>),
                         error(<<"Clipboard is empty / non-image">>)>>
    /\ IsNewDocument(canvas, "a.png", Solid(1, 1, "Rgba8", "blue"))

\* what do_copy finds to copy: None with no canvas, no selection, or a
\* selection whose copy of the merged raster yields nothing
Copied(c) ==
    IF ~c.some THEN None
    ELSE IF ~c.val.selection.some THEN None
    ELSE selection_copy(c.val.selection.val, canvas_merged(c.val), "Shrink")

\* C17: do_copy writes to the clipboard exactly when it returns true; with
\* nothing to copy it returns false and does not call the clipboard; in every
\* case canvas, selection and undo history are as before, and the handler
\* notifies "Copied" exactly when do_copy returned true.
C17_CopyWritesIffTrue ==
    \A put \in PutResults :
        LET r == do_copy(canvas, history, put)
            out == command(handle_copy(canvas, history, notifications, put))
        IN  /\ r.written <=> r.res = Ok(TRUE)
            /\ ~Copied(canvas).some => r.res = Ok(FALSE) /\ r.put = None
            /\ Copied(canvas).some =>
                    /\ r.put = Copied(canvas)
                    /\ r.res = IF put.ok THEN Ok(TRUE) ELSE put
            /\ r.canvas = canvas /\ r.history = history
            /\ out.canvas = canvas /\ out.history = history
            /\ out.notifications =
                    IF r.res = Ok(TRUE) THEN Append(notifications, info(<<"Copied">>))
                    ELSE IF r.res = Ok(FALSE) THEN notifications
                    ELSE Append(notifications, error(<<put.err>>))

C17_Witness ==
    /\ canvas.some /\ canvas.val.selection = Some(Rect(0, 0, 1, 1))
    /\ Len(canvas.val.planes) = 2 /\ Len(history.done) = 1
    /\ notifications = <<info(<<"New file created">>), info(<<"Pasted">>), info(<<"Copied">>)>>
    /\ do_copy(canvas, history, Ok("unit")).put = Some(Solid(1, 1, "Rgba8", "red"))
    /\ do_copy(Some(set_selection(canvas.val, Some(Rect(MaxDim, MaxDim, 1, 1)))),
               history, Ok("unit")).res = Ok(FALSE)

\* the images a codec, the clipboard or a dialog can hand over
SourceImages ==
    {Solid(w, h, fmt, c) : w \in 1 .. MaxDim, h \in 1 .. MaxDim,
                            fmt \in {"Rgba8", "Rgb8"}, c \in Colours \cup {"white"}}
    \cup {new_rgba8(1, MaxDim)} \cup ClipImages
    \cup {dec.val : dec \in {r \in DecodeResults : r.ok}}

\* every plane of the stack holds RGBA8 data
AllRgba8(ps) == \A i \in 1 .. Len(ps) : ps[i].image.fmt = "Rgba8"

\* C18: to_rgba returns an RGBA8 image of the same size and pixels, hands an
\* RGBA8 input back unchanged and is idempotent; every canvas made by open,
\* new, new-from-clipboard or paste, and every canvas the history keeps,
\* holds RGBA8 data only.
C18_ToRgbaAlwaysRgba8 ==
    /\ \A img \in SourceImages :
        /\ to_rgba(img).fmt = "Rgba8"
        /\ to_rgba(img).width = img.width /\ to_rgba(img).height = img.height
        /\ to_rgba(img).px = img.px
        /\ img.fmt = "Rgba8" => to_rgba(img) = img
        /\ to_rgba(to_rgba(img)) = to_rgba(img)
    /\ canvas.some => AllRgba8(canvas.val.planes)
    /\ \A i \in 1 .. Len(history.done) : AllRgba8(history.done[i].old.planes)
    /\ \A path \in Paths, dec \in DecodeResults :
        LET r == do_open_image(canvas, history, path, dec)
        IN  r.canvas.some => AllRgba8(r.canvas.val.planes)
    /\ \A clip \in ClipResults :
        /\ LET r == do_new_image_from_clipboard(canvas, history, clip)
           IN  r.canvas.some => AllRgba8(r.canvas.val.planes)
        /\ LET r == do_paste(canvas, history, clip)
           IN  r.canvas.some => AllRgba8(r.canvas.val.planes)
    /\ \A settings \in NewFileSettings :
        AllRgba8(do_new_image(canvas, history, settings).canvas.val.planes)

\* a canvas made from an RGB8 clipboard image, an RGB8 image pasted onto it
C18_Witness ==
    /\ notifications = <<info(<<"New file created">>), info(<<"Pasted">>)>>
    /\ canvas.some /\ Len(canvas.val.planes) = 2
    /\ canvas.val.planes[1].image = to_rgba(Solid(1, 1, "Rgb8", "red"))
    /\ canvas.val.planes[2].image = to_rgba(Solid(1, 1, "Rgb8", "red"))
    /\ Solid(1, 1, "Rgb8", "red") \in ClipImages
    /\ Solid(1, 1, "Rgb8", "red").fmt # "Rgba8"

----------------------------------------------------------------------------
(* Properties of a new document and the history (Spec) *)

\* the new-document commands that succeed, with every raster they may get
NewDocuments ==
    {handle_open(canvas, history, notifications, path, dec) :
        path \in Paths, dec \in {r \in DecodeResults : r.ok}}
    \cup {handle_new_clipboard(canvas, history, notifications, clip) :
        clip \in {r \in ClipResults : r.ok /\ r.val.some}}
    \cup {handle_new_image(canvas, history, notifications, settings) :
        settings \in NewFileSettings}

\* C20: open, new image and new image from clipboard replace editor.canvas
\* and leave done and undone as they were; the undo and redo commands that
\* follow find the entries recorded against the previous canvas.
C20_NewDocumentKeepsHistory ==
    \A h \in NewDocuments :
        LET out == command(h)
            u == handle_undo(out.canvas, out.history, out.notifications)
            r == handle_redo(out.canvas, out.history, out.notifications)
        IN  /\ h.res.ok
            /\ out.canvas.some /\ out.canvas # canvas
            /\ Len(out.canvas.val.planes) = 1
            /\ out.history = history
            /\ u.val = IF Len(history.done) > 0
                        THEN Some(description(Top(history.done).edit)) ELSE None
            /\ r.val = IF Len(history.undone) > 0
                        THEN Some(description(Top(history.undone).edit)) ELSE None

C20_Witness ==
    /\ Len(notifications) = 3
    /\ notifications[1] = info(<<"New file created">>)
    /\ notifications[2] = info(<<"Undo", "Paste">>)
    /\ notifications[3] = info(<<"New file created">>)
    /\ Len(history.done) = 1 /\ Len(history.undone) = 1
    /\ IsNewDocument(canvas, NEW_FILE_NAME, Solid(MaxDim, MaxDim, "Rgba8", "white"))
    /\ Top(history.done).old.planes[1].inner # canvas.val.planes[1].inner
    /\ Top(history.undone).old.planes[1].inner # canvas.val.planes[1].inner

====
